---- MODULE Spec2Model ----
(***************************************************************************)
(* Model of the Google Drive proxy API: the credential dependency          *)
(* (verify_credentials), the accessors (ArchiveManager, FolderManager,     *)
(* FileManager), the route handlers of /files and /folders, and the        *)
(* storage provider they call.                                             *)
(***************************************************************************)
EXTENDS Integers, Sequences, FiniteSets, TLC

VARIABLES
    drive,            \* provider state: sequence of item records, in listing order
    nextId,           \* next id the provider hands out
    fernet_api_key,   \* os.environ FERNET_API_KEY ("" when absent)
    pc,               \* position of the request: idle (none), authed (dependency
                      \* passed), update_b (between update's two calls), replied
    req,              \* the request being (or last) served
    sm,               \* the ServiceManager verify_credentials returned
    calls,            \* provider calls issued by the current request, in order
    sessions,         \* sessions (ServiceManager.service) attempted by the request
    decrypts,         \* CriptDict.decrypt calls attempted by the request
    exc,              \* exception that left the accessor / dependency (NoExc if none)
    ret,              \* objects the accessor returned (<<>> if none)
    resp,             \* HTTP response of the request (NoResp while in flight)
    pend,             \* update(): what step (a) fetched, kept for step (b)
    touched,          \* another client changed the provider since the request came
    writes,           \* changes the requests have made to the provider so far
    deleted           \* ids a delete() has removed so far

vars == <<drive, nextId, fernet_api_key, pc, req, sm, calls, sessions, decrypts,
          exc, ret, resp, pend, touched, writes, deleted>>

-----------------------------------------------------------------------------
(* Bounds *)

\* ids the provider may hand out are 1..MaxId
MaxId == 4
\* the requests of one behaviour change the provider at most MaxWrites times
MaxWrites == 1
\* an item has at most MaxParents parents
MaxParents == 2

\* ArchiveManager.list(page_size = 10)
DefaultPageSize == 10

Ids == 1..MaxId
\* None / "" for an optional id parameter
NoId == 0
\* None / "" for an optional name parameter (both are falsy in `if name:`)
NoName == ""
Names == {"q1.pdf", "notes"}

FolderMime == "application/vnd.google-apps.folder"

Range(s) == {s[i] : i \in DOMAIN s}
Min(a, b) == IF a < b THEN a ELSE b

-----------------------------------------------------------------------------
(* Errors: src/errors/http_exceptions.py *)

NotAuthMsg == "User is not authenticated. Please, use the correct credentials."

NoExc == [cls |-> "none", http |-> FALSE, status |-> 0, message |-> "", error |-> ""]

\* an exception that is not an HTTPException (provider-client or Python error);
\* text is its str(e)
Raw(cls, text) ==
    [cls |-> cls, http |-> FALSE, status |-> 0, message |-> "", error |-> text]

NotFoundException(archive_type, id) ==
    [cls |-> "NotFoundException", http |-> TRUE, status |-> 404,
     message |-> archive_type \o " of id '" \o id \o "' not Found", error |-> ""]

NotAuthenticatedException ==
    [cls |-> "NotAuthenticatedException", http |-> TRUE, status |-> 401,
     message |-> NotAuthMsg, error |-> ""]

NotAuhorizedException ==
    [cls |-> "NotAuhorizedException", http |-> TRUE, status |-> 403,
     message |-> "User is not authorized to perform this action.", error |-> ""]

InternalServerErrorException(detail, error) ==
    [cls |-> "InternalServerErrorException", http |-> TRUE, status |-> 500,
     message |-> detail, error |-> IF error = "" THEN "N/A" ELSE error]

\* variant: every exception is wrapped, an HTTPException too
handle_exception_wrap_all(e) ==
    InternalServerErrorException("An internal server error occurred.",
                                 IF e.error = "" THEN e.cls ELSE e.error)
handle_exception(e) ==
    IF e.http THEN e
    ELSE InternalServerErrorException("An internal server error occurred.", e.error)

-----------------------------------------------------------------------------
(* Responses.  code is the HTTP status code; status, message and error are    *)
(* the keys of the JSON body (status 0 / "" when the key is absent); envelope *)
(* tells whether the body is the {message, status} error envelope.            *)

NoResp == [code |-> 0, envelope |-> FALSE, status |-> 0, message |-> "",
           error |-> "", body |-> <<>>]

\* an HTTPException reaching the framework: its status code and its detail
ErrorResponse(e) ==
    [code |-> e.status, envelope |-> TRUE, status |-> e.status,
     message |-> e.message, error |-> e.error, body |-> <<>>]

\* an exception that is not an HTTPException and is caught by nobody: the
\* framework's plain "Internal Server Error"
UnhandledResponse ==
    [code |-> 500, envelope |-> FALSE, status |-> 0,
     message |-> "Internal Server Error", error |-> "", body |-> <<>>]

\* a handler that returned model objects
OkResponse(items) ==
    [code |-> 200, envelope |-> FALSE, status |-> 0, message |-> "",
     error |-> "", body |-> items]

\* delete_file / delete_folder: {'status': 410, 'message': ... successfully deleted}
DeletedResponse(kind) ==
    [code |-> 200, envelope |-> FALSE, status |-> 410,
     message |-> kind \o " successfully deleted", error |-> "", body |-> <<>>]

\* a path that matches a route of another method only
MethodNotAllowedResponse ==
    [code |-> 405, envelope |-> FALSE, status |-> 0,
     message |-> "Method Not Allowed", error |-> "", body |-> <<>>]

-----------------------------------------------------------------------------
(* Credential codec: src/utils/crypt.py *)

Keys == {"k1", "k2"}
\* what a token's plaintext can be: bytes that are not JSON, JSON that is not a
\* mapping, a mapping that is no usable service-account bundle, a usable bundle
Payloads == {"notjson", "list", "dict_bad", "dict_good"}

NoToken == [present |-> FALSE, wellformed |-> FALSE, key |-> "", payload |-> ""]
\* a header value that is no Fernet token at all
Garbage == [present |-> TRUE, wellformed |-> FALSE, key |-> "", payload |-> ""]
\* a Fernet token sealing plaintext p under key k
Sealed(p, k) == [present |-> TRUE, wellformed |-> TRUE, key |-> k, payload |-> p]

encrypt(obj, key) == Sealed(obj, key)

Tokens == {NoToken, Garbage, Sealed("dict_good", "k2")}
              \cup {Sealed(p, "k1") : p \in Payloads}

\* f.decrypt raises InvalidToken unless s is a token sealed under key;
\* json.loads raises JSONDecodeError unless the plaintext is JSON
decrypt(s, key) ==
    IF ~s.wellformed \/ s.key # key THEN [exc |-> Raw("InvalidToken", "InvalidToken"), value |-> ""]
    ELSE IF s.payload = "notjson" THEN [exc |-> Raw("JSONDecodeError", "JSONDecodeError"), value |-> ""]
    ELSE [exc |-> NoExc, value |-> s.payload]

-----------------------------------------------------------------------------
(* Session factory: ServiceManager, src/controllers/drive_management.py *)

NoSM == [info |-> ""]
ServiceManager(service_account_info) == [info |-> service_account_info]

\* ServiceManager.service: any failure of from_service_account_info / build
\* is turned into NotAuthenticatedException
\* variant: without the try / except, the credential error leaves as it is
service_no_except(s) ==
    IF s.info = "dict_good" THEN NoExc
    ELSE Raw("ValueError", "Could not deserialize key data")
service(s) ==
    IF s.info = "dict_good" THEN NoExc ELSE NotAuthenticatedException

-----------------------------------------------------------------------------
(* verify_credentials: src/routers/config_service_manager.py *)

\* variant: the secret is looked up before the token is looked at
verify_credentials_key_first(token, key) ==
    IF key = ""
    THEN [exc |-> InternalServerErrorException("Fernet API key is not configured.", ""),
          sm |-> NoSM, decrypts |-> 0]
    ELSE IF ~token.present
    THEN [exc |-> NotAuthenticatedException, sm |-> NoSM, decrypts |-> 0]
    ELSE LET credential == decrypt(token, key) IN
         IF credential.exc # NoExc
         THEN [exc |-> credential.exc, sm |-> NoSM, decrypts |-> 1]
         ELSE IF credential.value = "list"
         THEN [exc |-> Raw("AttributeError", "AttributeError"), sm |-> NoSM, decrypts |-> 1]
         ELSE [exc |-> NoExc, sm |-> ServiceManager(credential.value), decrypts |-> 1]

\* variant: the secret's absence is not checked, decryption runs with ""
verify_credentials_no_key_check(token, key) ==
    IF ~token.present
    THEN [exc |-> NotAuthenticatedException, sm |-> NoSM, decrypts |-> 0]
    ELSE LET credential == decrypt(token, key) IN
         IF credential.exc # NoExc
         THEN [exc |-> credential.exc, sm |-> NoSM, decrypts |-> 1]
         ELSE IF credential.value = "list"
         THEN [exc |-> Raw("AttributeError", "AttributeError"), sm |-> NoSM, decrypts |-> 1]
         ELSE [exc |-> NoExc, sm |-> ServiceManager(credential.value), decrypts |-> 1]

verify_credentials(token, key) ==
    IF ~token.present
    THEN [exc |-> NotAuthenticatedException, sm |-> NoSM, decrypts |-> 0]
    ELSE IF key = ""
    THEN [exc |-> InternalServerErrorException("Fernet API key is not configured.", ""),
          sm |-> NoSM, decrypts |-> 0]
    ELSE LET credential == decrypt(token, key) IN
         IF credential.exc # NoExc
         THEN [exc |-> credential.exc, sm |-> NoSM, decrypts |-> 1]
         ELSE IF credential.value = "list"
         \* credential.get(...) on a value that is no mapping
         THEN [exc |-> Raw("AttributeError", "AttributeError"), sm |-> NoSM, decrypts |-> 1]
         ELSE [exc |-> NoExc, sm |-> ServiceManager(credential.value), decrypts |-> 1]

-----------------------------------------------------------------------------
(* Models: src/models/archive.py *)

\* name.split('.')[-1].lower() on the names of the model
Extension(name) == IF name = "q1.pdf" THEN "pdf" ELSE name

\* File.from_json needs the keys id, name, fileExtension and mimeType; the
\* provider reports a fileExtension for binary files only, never for a folder
FileReadable(json) == json.mimeType # FolderMime

File_from_json(json) ==
    [id |-> json.id, name |-> json.name, extension |-> Extension(json.name),
     parents |-> json.parents, mimeType |-> json.mimeType,
     link |-> <<"https://drive.google.com/file/d/", json.id>>,
     downloadLink |-> <<"https://drive.google.com/uc?export=download&id=", json.id>>]

Folder_from_json(json) ==
    [id |-> json.id, name |-> json.name, parents |-> json.parents,
     link |-> <<"https://drive.google.com/drive/folders/", json.id>>]

\* RETURN_TYPE.from_json for the accessor kind
Readable(is_folder, json) == is_folder \/ FileReadable(json)
from_json(is_folder, json) ==
    IF is_folder THEN Folder_from_json(json) ELSE File_from_json(json)
TypeName(is_folder) == IF is_folder THEN "Folder" ELSE "File"

-----------------------------------------------------------------------------
(* The storage provider (Drive v3 files resource) as the accessors use it.   *)
(* An item is [id, name, parents, mimeType, content].                        *)

Exists(d, id) == \E i \in DOMAIN d : d[i].id = id
Index(d, id) == CHOOSE i \in DOMAIN d : d[i].id = id
Item(d, id) == d[Index(d, id)]
IsFolder(it) == it.mimeType = FolderMime

\* files().list(q = "mimeType = / != folder"): the matching items, in order
files_list(d, is_folder) == SelectSeq(d, LAMBDA it : IsFolder(it) = is_folder)

\* a page holds at most pageSize items and may be shorter than the listing
PageLengths(listing, page_size) == 0..Min(page_size, Len(listing))

\* files().delete: the item goes, and with a folder everything below it
RECURSIVE Doomed(_, _)
Doomed(d, S) ==
    LET T == S \cup {d[i].id : i \in {j \in DOMAIN d :
                                        Range(d[j].parents) \cap S # {}}}
    IN  IF T = S THEN S ELSE Doomed(d, T)
files_delete(d, id) == SelectSeq(d, LAMBDA it : it.id \notin Doomed(d, {id}))

\* files().update(fileId, body, addParents, removeParents): the listed parents
\* are removed, the added one is then a parent; body.name renames
Moved(parents, add, remove) ==
    LET kept == SelectSeq(parents, LAMBDA p : p \notin Range(remove))
    IN  IF add = NoId \/ add \in Range(kept) THEN kept ELSE Append(kept, add)
files_update(d, id, name, add, remove) ==
    [i \in DOMAIN d |->
        IF d[i].id # id THEN d[i]
        ELSE [d[i] EXCEPT !.name = IF name = NoName THEN @ ELSE name,
                          !.parents = Moved(@, add, remove)]]

\* the provider refuses a parent that is no existing folder, or that is the
\* item itself or below it
ParentOk(d, id, p) ==
    p = NoId \/ (Exists(d, p) /\ IsFolder(Item(d, p)) /\ p \notin Doomed(d, {id}))

\* files().update(fileId, media_body): new content for an existing item
files_update_media(d, id, content) ==
    [i \in DOMAIN d |-> IF d[i].id # id THEN d[i] ELSE [d[i] EXCEPT !.content = content]]

\* files().create(body): a new item with a fresh id, at the end of the listing
files_create(d, id, name, mime_type, parents) ==
    Append(d, [id |-> id, name |-> name, parents |-> parents, mimeType |-> mime_type,
               content |-> ""])

\* one provider call as the request log keeps it: operation, target id, the
\* arguments of an update (name "" / add 0 / remove <<>> when not sent), the
\* outcome (ok, notfound, error) and the records returned
Call(op, id, name, add, remove, out, res) ==
    [op |-> op, id |-> id, name |-> name, add |-> add, remove |-> remove,
     out |-> out, res |-> res]

HttpError404 == Raw("HttpError", "HttpError 404: File not found")
HttpError5xx == Raw("HttpError", "HttpError 503: Backend Error")

-----------------------------------------------------------------------------
(* Accessors: src/controllers/drive_management.py.  Each operator gives the   *)
(* outcome of one method: the exception it raises (NoExc if it returns), the  *)
(* objects it returns, the provider state it leaves and the calls it issued.  *)
(* fail is the provider failing the call for a reason of its own.             *)

Outcome(e, result, d, n, cs) ==
    [exc |-> e, result |-> result, drive |-> d, nextId |-> n, calls |-> cs]

Convert(is_folder, recs) == [i \in DOMAIN recs |-> from_json(is_folder, recs[i])]
AllReadable(is_folder, recs) == \A i \in DOMAIN recs : Readable(is_folder, recs[i])

\* ArchiveManager.list: one page of the items of the accessor's kind
ArchiveManager_list(d, n, is_folder, k, fail) ==
    LET recs == SubSeq(files_list(d, is_folder), 1, k) IN
    IF fail
    THEN Outcome(HttpError5xx, <<>>, d, n,
                 <<Call("list", NoId, NoName, NoId, <<>>, "error", <<>>)>>)
    ELSE LET cs == <<Call("list", NoId, NoName, NoId, <<>>, "ok", recs)>> IN
         IF AllReadable(is_folder, recs)
         THEN Outcome(NoExc, Convert(is_folder, recs), d, n, cs)
         ELSE Outcome(Raw("KeyError", "'fileExtension'"), <<>>, d, n, cs)

\* ArchiveManager.get: the provider's error is not caught here
ArchiveManager_get(d, n, is_folder, id, fail) ==
    IF fail
    THEN Outcome(HttpError5xx, <<>>, d, n,
                 <<Call("get", id, NoName, NoId, <<>>, "error", <<>>)>>)
    ELSE IF ~Exists(d, id)
    THEN Outcome(HttpError404, <<>>, d, n,
                 <<Call("get", id, NoName, NoId, <<>>, "notfound", <<>>)>>)
    ELSE LET rec == Item(d, id)
             cs == <<Call("get", id, NoName, NoId, <<>>, "ok", <<rec>>)>> IN
         IF Readable(is_folder, rec)
         THEN Outcome(NoExc, <<from_json(is_folder, rec)>>, d, n, cs)
         ELSE Outcome(Raw("KeyError", "'fileExtension'"), <<>>, d, n, cs)

\* ArchiveManager.delete
ArchiveManager_delete(d, n, id, fail) ==
    IF fail
    THEN Outcome(HttpError5xx, <<>>, d, n,
                 <<Call("delete", id, NoName, NoId, <<>>, "error", <<>>)>>)
    ELSE IF ~Exists(d, id)
    THEN Outcome(HttpError404, <<>>, d, n,
                 <<Call("delete", id, NoName, NoId, <<>>, "notfound", <<>>)>>)
    ELSE Outcome(NoExc, <<>>, files_delete(d, id), n,
                 <<Call("delete", id, NoName, NoId, <<>>, "ok", <<>>)>>)

\* ArchiveManager.update, line 137: fetch the current parents.  result is
\* current_item.get('parents', [])
\* variant: a failed fetch is tried once more
ArchiveManager_update_fetch_retry(d, n, id, fail) ==
    IF fail
    THEN Outcome(HttpError5xx, <<>>, d, n,
                 <<Call("get", id, NoName, NoId, <<>>, "error", <<>>),
                   Call("get", id, NoName, NoId, <<>>, "error", <<>>)>>)
    ELSE IF ~Exists(d, id)
    THEN Outcome(HttpError404, <<>>, d, n,
                 <<Call("get", id, NoName, NoId, <<>>, "notfound", <<>>)>>)
    ELSE Outcome(NoExc, Item(d, id).parents, d, n,
                 <<Call("get", id, NoName, NoId, <<>>, "ok", <<Item(d, id)>>)>>)
ArchiveManager_update_fetch(d, n, id, fail) ==
    IF fail
    THEN Outcome(HttpError5xx, <<>>, d, n,
                 <<Call("get", id, NoName, NoId, <<>>, "error", <<>>)>>)
    ELSE IF ~Exists(d, id)
    THEN Outcome(HttpError404, <<>>, d, n,
                 <<Call("get", id, NoName, NoId, <<>>, "notfound", <<>>)>>)
    ELSE Outcome(NoExc, Item(d, id).parents, d, n,
                 <<Call("get", id, NoName, NoId, <<>>, "ok", <<Item(d, id)>>)>>)

\* ArchiveManager.update, lines 138-161: build the arguments and issue the
\* single update call.  old_parents is ",".join(parents): the ids in order,
\* empty (falsy) exactly when there are none
UpdateName(name) == IF name # NoName THEN name ELSE NoName
AddParents(new_parent_id) == new_parent_id
\* variant: only the first of the current parents is removed
RemoveParents_first_only(new_parent_id, old_parents) ==
    IF new_parent_id # NoId /\ old_parents # <<>> THEN <<old_parents[1]>> ELSE <<>>
\* variant: removeParents is sent whenever the item has parents
RemoveParents_always(new_parent_id, old_parents) == old_parents
RemoveParents(new_parent_id, old_parents) ==
    IF new_parent_id # NoId /\ old_parents # <<>> THEN old_parents ELSE <<>>
\* variant: the parents are read again at the write, so the two calls act as one
ArchiveManager_update_write_refetch(d, n, is_folder, id, name, new_parent_id, old_parents, fail) ==
    LET body_name == UpdateName(name)
        add == AddParents(new_parent_id)
        remove == RemoveParents(new_parent_id,
                                IF Exists(d, id) THEN Item(d, id).parents ELSE <<>>)
    IN
    IF fail
    THEN Outcome(HttpError5xx, <<>>, d, n,
                 <<Call("update", id, body_name, add, remove, "error", <<>>)>>)
    ELSE IF ~Exists(d, id) \/ ~ParentOk(d, id, add)
    THEN Outcome(HttpError404, <<>>, d, n,
                 <<Call("update", id, body_name, add, remove, "notfound", <<>>)>>)
    ELSE LET d2 == files_update(d, id, body_name, add, remove)
             rec == Item(d2, id)
             cs == <<Call("update", id, body_name, add, remove, "ok", <<rec>>)>> IN
         IF Readable(is_folder, rec)
         THEN Outcome(NoExc, <<from_json(is_folder, rec)>>, d2, n, cs)
         ELSE Outcome(Raw("KeyError", "'fileExtension'"), <<>>, d2, n, cs)
ArchiveManager_update_write(d, n, is_folder, id, name, new_parent_id, old_parents, fail) ==
    LET body_name == UpdateName(name)
        add == AddParents(new_parent_id)
        remove == RemoveParents(new_parent_id, old_parents)
    IN
    IF fail
    THEN Outcome(HttpError5xx, <<>>, d, n,
                 <<Call("update", id, body_name, add, remove, "error", <<>>)>>)
    ELSE IF ~Exists(d, id) \/ ~ParentOk(d, id, add)
    THEN Outcome(HttpError404, <<>>, d, n,
                 <<Call("update", id, body_name, add, remove, "notfound", <<>>)>>)
    ELSE LET d2 == files_update(d, id, body_name, add, remove)
             rec == Item(d2, id)
             cs == <<Call("update", id, body_name, add, remove, "ok", <<rec>>)>> IN
         IF Readable(is_folder, rec)
         THEN Outcome(NoExc, <<from_json(is_folder, rec)>>, d2, n, cs)
         ELSE Outcome(Raw("KeyError", "'fileExtension'"), <<>>, d2, n, cs)

\* ArchiveManager.create: the metadata body and the single create call
CreateMime(is_folder, mime_type) ==
    IF mime_type # "" THEN mime_type
    ELSE IF is_folder THEN FolderMime
    ELSE "application/octet-stream"
\* variant: the parent is left out of the metadata body
CreateParents_none(parent_id) == <<>>
CreateParents(parent_id) == IF parent_id # NoId THEN <<parent_id>> ELSE <<>>
ArchiveManager_create(d, n, is_folder, name, parent_id, mime_type, fail) ==
    LET mime == CreateMime(is_folder, mime_type)
        parents == CreateParents(parent_id)
    IN
    IF fail
    THEN Outcome(HttpError5xx, <<>>, d, n,
                 <<Call("create", NoId, name, parent_id, <<>>, "error", <<>>)>>)
    ELSE IF ~ParentOk(d, NoId, parent_id)
    THEN Outcome(HttpError404, <<>>, d, n,
                 <<Call("create", NoId, name, parent_id, <<>>, "notfound", <<>>)>>)
    ELSE LET d2 == files_create(d, n, name, mime, parents)
             rec == Item(d2, n)
             cs == <<Call("create", n, name, parent_id, <<>>, "ok", <<rec>>)>> IN
         IF Readable(is_folder, rec)
         THEN Outcome(NoExc, <<from_json(is_folder, rec)>>, d2, n + 1, cs)
         ELSE Outcome(Raw("KeyError", "'fileExtension'"), <<>>, d2, n + 1, cs)

\* FolderManager.list_files: all files (one page), filtered by first parent
\* variant: any parent counts, not the first only
InFolder_any_parent(result, folder_id) == folder_id \in Range(result.parents)
InFolder(result, folder_id) == result.parents # <<>> /\ result.parents[1] = folder_id
FolderManager_list_files(d, n, folder_id, k, fail) ==
    LET all == ArchiveManager_list(d, n, FALSE, k, fail) IN
    IF all.exc # NoExc THEN all
    ELSE Outcome(NoExc, SelectSeq(all.result, LAMBDA result : InFolder(result, folder_id)),
                 d, n, all.calls)

\* FolderManager.root_folder: the first listed folder without parents; the
\* bare except turns every exception into NotFoundException(Folder, 'root')
FirstRoot(folders) ==
    LET roots == SelectSeq(folders, LAMBDA folder : folder.parents = <<>>) IN
    IF roots = <<>> THEN <<>> ELSE <<roots[1]>>
\* variant: without the bare except, a failed listing keeps its own exception
FolderManager_root_folder_no_except(d, n, k, fail) ==
    LET folders == ArchiveManager_list(d, n, TRUE, k, fail) IN
    IF folders.exc # NoExc THEN folders
    ELSE IF FirstRoot(folders.result) = <<>>
    THEN Outcome(NotFoundException(TypeName(TRUE), "root"), <<>>, d, n, folders.calls)
    ELSE Outcome(NoExc, FirstRoot(folders.result), d, n, folders.calls)
FolderManager_root_folder(d, n, k, fail) ==
    LET folders == ArchiveManager_list(d, n, TRUE, k, fail) IN
    IF folders.exc # NoExc \/ FirstRoot(folders.result) = <<>>
    THEN Outcome(NotFoundException(TypeName(TRUE), "root"), <<>>, d, n, folders.calls)
    ELSE Outcome(NoExc, FirstRoot(folders.result), d, n, folders.calls)

\* FolderManager.create_folder
FolderManager_create_folder(d, n, name, parent_id, fail) ==
    ArchiveManager_create(d, n, TRUE, name, parent_id, "", fail)

\* FileManager.create_empty_file
FileManager_create_empty_file(d, n, name, mime_type, parent_id, fail) ==
    ArchiveManager_create(d, n, FALSE, name, parent_id, mime_type, fail)

\* FileManager.upload_file_content: an update call with a media body on the
\* existing item id
FileManager_upload_file_content(d, n, id, content, fail) ==
    IF fail
    THEN Outcome(HttpError5xx, <<>>, d, n,
                 <<Call("update_media", id, NoName, NoId, <<>>, "error", <<>>)>>)
    ELSE IF ~Exists(d, id)
    THEN Outcome(HttpError404, <<>>, d, n,
                 <<Call("update_media", id, NoName, NoId, <<>>, "notfound", <<>>)>>)
    ELSE LET d2 == files_update_media(d, id, content)
             rec == Item(d2, id)
             cs == <<Call("update_media", id, NoName, NoId, <<>>, "ok", <<rec>>)>> IN
         IF Readable(FALSE, rec)
         THEN Outcome(NoExc, <<from_json(FALSE, rec)>>, d2, n, cs)
         ELSE Outcome(Raw("KeyError", "'fileExtension'"), <<>>, d2, n, cs)

-----------------------------------------------------------------------------
(* Requests *)

FileRoutes == {"GET /files/", "GET /files/{id}", "DELETE /files/{id}",
               "PATCH /files/{id}", "POST /files/"}
FolderRoutes == {"GET /folders/root", "GET /folders/", "GET /folders/{id}",
                 "GET /folders/{id}/files", "DELETE /folders/{id}",
                 "PATCH /folders/{id}", "POST /folders/"}
\* the routes of the two routers, all behind Depends(verify_credentials)
Routes == FileRoutes \cup FolderRoutes

Request(route, token, id, name, parent_id) ==
    [route |-> route, token |-> token, id |-> id, name |-> name, parent_id |-> parent_id]

NoPend == [id |-> NoId, name |-> NoName, new_parent_id |-> NoId,
           old_parents |-> <<>>, is_folder |-> FALSE]

\* what the provider holds when the service starts (its own items and what
\* other clients have put there): nothing, or a root folder 1, a folder 2 in
\* it and a file 3 that lists no parent, or that lists both folders
NewItem(id, name, mime_type, parents) ==
    [id |-> id, name |-> name, parents |-> parents, mimeType |-> mime_type,
     content |-> ""]
Fixtures ==
    {[drive |-> <<>>, nextId |-> 1],
     [drive |-> <<NewItem(1, "notes", FolderMime, <<>>),
                  NewItem(2, "notes", FolderMime, <<1>>),
                  NewItem(3, "q1.pdf", "application/pdf", <<>>)>>,
      nextId |-> 4],
     [drive |-> <<NewItem(1, "notes", FolderMime, <<>>),
                  NewItem(2, "notes", FolderMime, <<1>>),
                  NewItem(3, "q1.pdf", "application/pdf", <<2, 1>>)>>,
      nextId |-> 4]}

Init ==
    /\ \E f \in Fixtures : drive = f.drive /\ nextId = f.nextId
    /\ writes = 0
    /\ deleted = {}
    /\ fernet_api_key \in {"", "k1"}
    /\ pc = "idle"
    /\ req = Request("none", NoToken, NoId, NoName, NoId)
    /\ sm = NoSM
    /\ calls = <<>>
    /\ sessions = 0
    /\ decrypts = 0
    /\ exc = NoExc
    /\ ret = <<>>
    /\ resp = NoResp
    /\ pend = NoPend
    /\ touched = FALSE

\* A request for one of the routes arrives; the framework runs the dependency
\* verify_credentials.  An exception leaving it ends the request: an
\* HTTPException with its envelope, anything else as the framework's plain 500.
Receive(route, token) ==
    LET v == verify_credentials(token, fernet_api_key) IN
    /\ pc = "idle"
    /\ req' = Request(route, token, NoId, NoName, NoId)
    /\ sm' = v.sm
    /\ decrypts' = v.decrypts
    /\ exc' = v.exc
    /\ calls' = <<>>
    /\ sessions' = 0
    /\ ret' = <<>>
    /\ pend' = NoPend
    /\ touched' = FALSE
    /\ IF v.exc = NoExc
       THEN pc' = "authed" /\ resp' = NoResp
       ELSE /\ pc' = "replied"
            /\ resp' = IF v.exc.http THEN ErrorResponse(v.exc) ELSE UnhandledResponse
    /\ UNCHANGED <<drive, nextId, fernet_api_key, writes, deleted>>

\* ArchiveManager.__init__, line 72: the accessor builds its session first;
\* if that raises, the method is never called
WithSession(s, d, n, o) ==
    IF service(s) = NoExc THEN o ELSE Outcome(service(s), <<>>, d, n, <<>>)

\* the try / except Exception / raise handle_exception(e) of every handler,
\* around an accessor outcome o; ok is the response when nothing is raised
Reply(r, o, ok, built) ==
    /\ req' = r
    /\ drive' = o.drive
    /\ nextId' = o.nextId
    /\ calls' = calls \o o.calls
    /\ sessions' = sessions + built
    /\ exc' = o.exc
    /\ ret' = o.result
    /\ resp' = IF o.exc = NoExc THEN ok ELSE ErrorResponse(handle_exception(o.exc))
    /\ pc' = "replied"
    /\ pend' = NoPend
    /\ writes' = IF o.drive # drive THEN writes + 1 ELSE writes
    /\ deleted' = deleted \cup {c.id : c \in {x \in Range(o.calls) :
                                               x.op = "delete" /\ x.out = "ok"}}
    /\ UNCHANGED <<fernet_api_key, sm, decrypts, touched>>

Serving(route) == pc = "authed" /\ req.route = route

-----------------------------------------------------------------------------
(* Route handlers: src/routers/file_router.py *)

OptName == Names \cup {NoName}
OptId == Ids \cup {NoId}
FilePages == PageLengths(files_list(drive, FALSE), DefaultPageSize)
FolderPages == PageLengths(files_list(drive, TRUE), DefaultPageSize)

\* GET /files/
file_list_files ==
    /\ Serving("GET /files/")
    /\ \E fail \in BOOLEAN, k \in FilePages :
         LET o == WithSession(sm, drive, nextId,
                              ArchiveManager_list(drive, nextId, FALSE, k, fail))
         IN  Reply(req, o, OkResponse(o.result), 1)

\* GET /files/{id}
get_file ==
    /\ Serving("GET /files/{id}")
    /\ \E id \in Ids, fail \in BOOLEAN :
         LET o == WithSession(sm, drive, nextId,
                              ArchiveManager_get(drive, nextId, FALSE, id, fail))
         IN  Reply([req EXCEPT !.id = id], o, OkResponse(o.result), 1)

\* DELETE /files/{id}
delete_file ==
    /\ Serving("DELETE /files/{id}")
    /\ writes < MaxWrites
    /\ \E id \in Ids, fail \in BOOLEAN :
         LET o == WithSession(sm, drive, nextId,
                              ArchiveManager_delete(drive, nextId, id, fail))
         IN  Reply([req EXCEPT !.id = id], o, DeletedResponse("file"), 1)

\* PATCH /files/{id} and PATCH /folders/{id}, up to the first provider call of
\* ArchiveManager.update (the fetch of the current parents)
update_begin(is_folder) ==
    \E id \in Ids, name \in OptName, new_parent_id \in OptId, fail \in BOOLEAN :
      LET r == [req EXCEPT !.id = id, !.name = name, !.parent_id = new_parent_id]
          a == WithSession(sm, drive, nextId,
                           ArchiveManager_update_fetch(drive, nextId, id, fail))
      IN  IF a.exc # NoExc
          THEN Reply(r, a, NoResp, 1)
          ELSE /\ req' = r
               /\ calls' = calls \o a.calls
               /\ sessions' = sessions + 1
               /\ pend' = [id |-> id, name |-> name, new_parent_id |-> new_parent_id,
                           old_parents |-> a.result, is_folder |-> is_folder]
               /\ pc' = "update_b"
               /\ UNCHANGED <<drive, nextId, fernet_api_key, sm, decrypts, exc, ret,
                              resp, touched, writes, deleted>>

update_file ==
    /\ Serving("PATCH /files/{id}")
    /\ writes < MaxWrites
    /\ update_begin(FALSE)

\* the rest of ArchiveManager.update: the single update call, and the reply
update_write ==
    /\ pc = "update_b"
    /\ \E fail \in BOOLEAN :
         LET o == ArchiveManager_update_write(drive, nextId, pend.is_folder, pend.id,
                                              pend.name, pend.new_parent_id,
                                              pend.old_parents, fail)
         IN  Reply(req, o, OkResponse(o.result), 0)

\* mime_type_map.get(name.split('.')[-1].lower(), 'application/octet-stream')
MimeOf(name) ==
    IF Extension(name) = "pdf" THEN "application/pdf" ELSE "application/octet-stream"

\* POST /files/?parent_id=&name=
create_empty ==
    /\ Serving("POST /files/")
    /\ nextId <= MaxId
    /\ writes < MaxWrites
    /\ \E name \in Names, parent_id \in OptId, fail \in BOOLEAN :
         LET o == WithSession(sm, drive, nextId,
                     FileManager_create_empty_file(drive, nextId, name, MimeOf(name),
                                                   parent_id, fail))
         IN  Reply([req EXCEPT !.name = name, !.parent_id = parent_id], o,
                   OkResponse(o.result), 1)

\* POST /files/{parent_id}: the router has no such route; the path matches
\* /files/{id} for GET, DELETE and PATCH only, so the framework answers 405
\* before any dependency runs
post_files_parent_id ==
    /\ pc = "idle"
    /\ \E token \in {NoToken, Sealed("dict_good", "k1")}, parent_id \in Ids :
         /\ req' = Request("POST /files/{parent_id}", token, NoId, NoName, parent_id)
         /\ resp' = MethodNotAllowedResponse
    /\ sm' = NoSM
    /\ calls' = <<>>
    /\ sessions' = 0
    /\ decrypts' = 0
    /\ exc' = NoExc
    /\ ret' = <<>>
    /\ pend' = NoPend
    /\ touched' = FALSE
    /\ pc' = "replied"
    /\ UNCHANGED <<drive, nextId, fernet_api_key, writes, deleted>>

-----------------------------------------------------------------------------
(* Route handlers: src/routers/folder_router.py *)

\* GET /folders/root
get_root_folder ==
    /\ Serving("GET /folders/root")
    /\ \E fail \in BOOLEAN, k \in FolderPages :
         LET o == WithSession(sm, drive, nextId,
                              FolderManager_root_folder(drive, nextId, k, fail))
         IN  Reply(req, o, OkResponse(o.result), 1)

\* GET /folders/
list_folders ==
    /\ Serving("GET /folders/")
    /\ \E fail \in BOOLEAN, k \in FolderPages :
         LET o == WithSession(sm, drive, nextId,
                              ArchiveManager_list(drive, nextId, TRUE, k, fail))
         IN  Reply(req, o, OkResponse(o.result), 1)

\* GET /folders/{id}
get_folder ==
    /\ Serving("GET /folders/{id}")
    /\ \E id \in Ids, fail \in BOOLEAN :
         LET o == WithSession(sm, drive, nextId,
                              ArchiveManager_get(drive, nextId, TRUE, id, fail))
         IN  Reply([req EXCEPT !.id = id], o, OkResponse(o.result), 1)

\* FolderManager(service_manager).list_files_in_folder(id): FolderManager has
\* no attribute of that name (its method is list_files)
FolderManager_list_files_in_folder(d, n, folder_id) ==
    Outcome(Raw("AttributeError",
                "'FolderManager' object has no attribute 'list_files_in_folder'"),
            <<>>, d, n, <<>>)

\* GET /folders/{id}/files
folder_list_files ==
    /\ Serving("GET /folders/{id}/files")
    /\ \E id \in Ids :
         LET o == WithSession(sm, drive, nextId,
                              FolderManager_list_files_in_folder(drive, nextId, id))
         IN  Reply([req EXCEPT !.id = id], o, OkResponse(o.result), 1)

\* DELETE /folders/{id}
delete_folder ==
    /\ Serving("DELETE /folders/{id}")
    /\ writes < MaxWrites
    /\ \E id \in Ids, fail \in BOOLEAN :
         LET o == WithSession(sm, drive, nextId,
                              ArchiveManager_delete(drive, nextId, id, fail))
         IN  Reply([req EXCEPT !.id = id], o, DeletedResponse("folder"), 1)

\* PATCH /folders/{id}
update_folder ==
    /\ Serving("PATCH /folders/{id}")
    /\ writes < MaxWrites
    /\ update_begin(TRUE)

\* POST /folders/?name=&parent_id=
create_folder ==
    /\ Serving("POST /folders/")
    /\ nextId <= MaxId
    /\ writes < MaxWrites
    /\ \E name \in Names, parent_id \in OptId, fail \in BOOLEAN :
         LET o == WithSession(sm, drive, nextId,
                     FolderManager_create_folder(drive, nextId, name, parent_id, fail))
         IN  Reply([req EXCEPT !.name = name, !.parent_id = parent_id], o,
                   OkResponse(o.result), 1)

-----------------------------------------------------------------------------
(* Accessor methods no route reaches, called directly on an accessor built   *)
(* from a ServiceManager.                                                    *)

Direct(method, id, o, built) ==
    /\ pc = "idle"
    /\ req' = Request(method, NoToken, id, NoName, NoId)
    /\ drive' = o.drive
    /\ nextId' = o.nextId
    /\ calls' = o.calls
    /\ sessions' = built
    /\ decrypts' = 0
    /\ exc' = o.exc
    /\ ret' = o.result
    /\ resp' = NoResp
    /\ sm' = NoSM
    /\ pend' = NoPend
    /\ touched' = FALSE
    /\ pc' = "replied"
    /\ writes' = IF o.drive # drive THEN writes + 1 ELSE writes
    /\ UNCHANGED <<fernet_api_key, deleted>>

\* FolderManager(s).list_files(folder_id): the FolderManager's session, then
\* the session of the FileManager it builds
call_list_files ==
    \E s \in {ServiceManager("dict_good"), ServiceManager("dict_bad")},
       folder_id \in Ids, fail \in BOOLEAN, k \in FilePages :
         LET o == WithSession(s, drive, nextId,
                              FolderManager_list_files(drive, nextId, folder_id, k, fail))
         IN  Direct("FolderManager.list_files", folder_id, o,
                    IF service(s) = NoExc THEN 2 ELSE 1)

Contents == {"data"}

\* FileManager(s).upload_file_content(id, content, mime_type)
call_upload_file_content ==
    /\ writes < MaxWrites
    /\ \E s \in {ServiceManager("dict_good"), ServiceManager("dict_bad")},
       id \in Ids, content \in Contents, fail \in BOOLEAN :
         LET o == WithSession(s, drive, nextId,
                     FileManager_upload_file_content(drive, nextId, id, content, fail))
         IN  Direct("FileManager.upload_file_content", id, o, 1)

-----------------------------------------------------------------------------
(* Another client of the same provider adds a parent to a file between the   *)
(* two provider calls of an update.  (What other clients do between requests *)
(* is part of what the provider holds at the start.)                         *)

other_client_adds_parent ==
    /\ pc = "update_b"
    /\ \E id \in Ids, p \in Ids :
         /\ Exists(drive, id)
         /\ ~IsFolder(Item(drive, id))
         /\ ParentOk(drive, id, p)
         /\ p \notin Range(Item(drive, id).parents)
         /\ Len(Item(drive, id).parents) < MaxParents
         /\ drive' = [i \in DOMAIN drive |->
                        IF drive[i].id # id THEN drive[i]
                        ELSE [drive[i] EXCEPT !.parents = Append(@, p)]]
    /\ touched' = TRUE
    /\ UNCHANGED <<nextId, fernet_api_key, pc, req, sm, calls, sessions, decrypts,
                   exc, ret, resp, pend, writes, deleted>>

-----------------------------------------------------------------------------
(* The response is sent and the request ends: nothing of it is kept (no      *)
(* session, accessor or result outlives its request).                        *)

end_request ==
    /\ pc = "replied"
    /\ pc' = "idle"
    /\ req' = Request("none", NoToken, NoId, NoName, NoId)
    /\ sm' = NoSM
    /\ calls' = <<>>
    /\ sessions' = 0
    /\ decrypts' = 0
    /\ exc' = NoExc
    /\ ret' = <<>>
    /\ resp' = NoResp
    /\ pend' = NoPend
    /\ touched' = FALSE
    /\ UNCHANGED <<drive, nextId, fernet_api_key, writes, deleted>>

-----------------------------------------------------------------------------

Next ==
    \/ \E route \in Routes, token \in Tokens : Receive(route, token)
    \/ file_list_files
    \/ get_file
    \/ delete_file
    \/ update_file
    \/ update_write
    \/ create_empty
    \/ post_files_parent_id
    \/ get_root_folder
    \/ list_folders
    \/ get_folder
    \/ folder_list_files
    \/ delete_folder
    \/ update_folder
    \/ create_folder
    \/ call_list_files
    \/ call_upload_file_content
    \/ other_client_adds_parent
    \/ end_request

Spec == Init /\ [][Next]_vars

-----------------------------------------------------------------------------
(* Properties *)

Replied == pc = "replied"
Routed == req.route \in Routes
NotAuthenticatedEnvelope == ErrorResponse(NotAuthenticatedException)
GetRoutes == {"GET /files/{id}", "GET /folders/{id}"}
DeleteRoutes == {"DELETE /files/{id}", "DELETE /folders/{id}"}
PatchRoutes == {"PATCH /files/{id}", "PATCH /folders/{id}"}

\* C1: a request for any route of the two routers that carries no token is
\* answered 401 with the envelope {message: 'User is not authenticated. Please,
\* use the correct credentials.', status: 401}, with the secret configured or
\* not, and the request builds no session and issues no provider call.
C1_MissingTokenIs401 ==
    (Routed /\ ~req.token.present) =>
        /\ Replied
        /\ resp.code = 401
        /\ resp.envelope
        /\ resp.status = 401
        /\ resp.message = "User is not authenticated. Please, use the correct credentials."
        /\ sessions = 0
        /\ decrypts = 0
        /\ calls = <<>>

\* C1 witness: a route answered without a token while the secret is absent
C1_Witness ==
    /\ Replied /\ Routed /\ ~req.token.present
    /\ fernet_api_key = ""
    /\ resp.code = 401

\* a present token that the configured key cannot turn into a mapping
InvalidToken(token, key) ==
    /\ token.present
    /\ \/ decrypt(token, key).exc # NoExc
       \/ decrypt(token, key).value = "list"

\* C2: with the secret configured, a request whose token is present but invalid
\* (malformed, sealed under another key, or not structured data once decrypted)
\* is answered with the 401 Not Authenticated envelope, and no provider call is
\* issued.
C2_InvalidTokenIs401 ==
    (Replied /\ Routed /\ fernet_api_key # "" /\ InvalidToken(req.token, fernet_api_key)) =>
        /\ resp = NotAuthenticatedEnvelope
        /\ calls = <<>>

\* C3: get(id) of an id the provider reports as non-existent fails with the
\* Not Found error: NotFoundException at the accessor, HTTP 404 with the
\* envelope {message, status: 404} through GET /files/{id} and GET /folders/{id},
\* and not a 500.
C3_GetMissingIs404 ==
    (Replied /\ req.route \in GetRoutes /\ Len(calls) = 1 /\ calls[1].out = "notfound") =>
        /\ exc.cls = "NotFoundException"
        /\ resp.code = 404
        /\ resp.envelope
        /\ resp.status = 404

\* C4: once delete(id) has succeeded, a later get(id) yields the Not Found
\* error (ids are never handed out twice, so no create brings id back); and
\* delete(id) of an id that does not exist surfaces as Not Found, not success.
C4_DeleteThenGetIs404 ==
    /\ (Replied /\ req.route \in GetRoutes /\ req.id \in deleted
          /\ Len(calls) = 1 /\ calls[1].out = "notfound") =>
            (exc.cls = "NotFoundException" /\ resp.code = 404)
    /\ (Replied /\ req.route \in DeleteRoutes
          /\ Len(calls) = 1 /\ calls[1].out = "notfound") =>
            (exc.cls = "NotFoundException" /\ resp.code = 404)

\* an update request that returned, given a name and a new parent, with no
\* other client acting between its two provider calls
MovedAndRenamed ==
    /\ Replied /\ req.route \in PatchRoutes
    /\ req.name # NoName /\ req.parent_id # NoId
    /\ exc = NoExc
    /\ ~touched

\* C5: update(id, name=N, new_parent_id=P) on an item with 0, 1 or several
\* parents, with no other client acting in between, sends one update call
\* that adds P and removes every parent the item had, and a get(id) after it
\* shows parents = [P] and name = N.
C5_UpdateMovesAndRenames ==
    MovedAndRenamed =>
        LET before == calls[1].res[1].parents
            after == ArchiveManager_get(drive, nextId, req.route = "PATCH /folders/{id}",
                                        req.id, FALSE)
        IN  /\ Len(calls) = 2 /\ calls[1].op = "get" /\ calls[2].op = "update"
            /\ calls[2].add = req.parent_id
            /\ Range(calls[2].remove) = Range(before)
            /\ after.exc = NoExc
            /\ after.result[1].parents = <<req.parent_id>>
            /\ after.result[1].name = req.name

\* C5 witness: such an update of an item that had two parents
C5_Witness ==
    /\ MovedAndRenamed
    /\ Len(calls[1].res[1].parents) = 2

\* C6: GET /folders/{id}/files with a valid token and an existing folder id,
\* when no provider call fails, succeeds and returns the files whose first
\* parent is id.
C6_FolderFilesSucceeds ==
    (Replied /\ req.route = "GET /folders/{id}/files" /\ service(sm) = NoExc
       /\ Exists(drive, req.id) /\ IsFolder(Item(drive, req.id))
       /\ \A i \in DOMAIN calls : calls[i].out = "ok") =>
        /\ resp.code = 200
        /\ \A i \in DOMAIN resp.body : resp.body[i].parents[1] = req.id

\* FolderManager.list_files returned, for folder req.id, from the page calls[1].res
ListedFiles ==
    /\ Replied /\ req.route = "FolderManager.list_files"
    /\ exc = NoExc

HasFirstParent(item, fid) == item.parents # <<>> /\ item.parents[1] = fid

\* C7: list_files(fid) returns exactly the files of the one page listed whose
\* first parent is fid: every returned file is of the page and has
\* parents[0] = fid, no such file of the page is left out, and files without
\* parents or with fid as a later parent only are not returned.
C7_ListFilesIsFirstParentSubset ==
    ListedFiles =>
        LET page == calls[1].res IN
        /\ Len(calls) = 1 /\ calls[1].op = "list"
        /\ \A i \in DOMAIN ret :
             /\ HasFirstParent(ret[i], req.id)
             /\ \E j \in DOMAIN page : page[j].id = ret[i].id
        /\ \A j \in DOMAIN page :
             HasFirstParent(page[j], req.id) <=> (\E i \in DOMAIN ret : ret[i].id = page[j].id)
        /\ \A i, j \in DOMAIN ret : ret[i].id = ret[j].id => i = j

\* C7 witness: the page holds a file with two parents of which fid is the
\* second, and it is not returned
C7_Witness ==
    /\ ListedFiles
    /\ \E j \in DOMAIN calls[1].res :
         /\ Len(calls[1].res[j].parents) = 2
         /\ calls[1].res[j].parents[2] = req.id
    /\ ret = <<>>

\* C8: an upload through POST /files/{parent_id} with a valid token and an
\* existing folder parent_id succeeds by one create call that adds a new file
\* under parent_id; and the accessor's upload creates an item (a create call),
\* it does not change an existing one.
C8_UploadCreatesNewFile ==
    /\ (Replied /\ req.route = "POST /files/{parent_id}"
          /\ fernet_api_key # "" /\ req.token = Sealed("dict_good", fernet_api_key)
          /\ ParentOk(drive, NoId, req.parent_id)) =>
            (resp.code = 200 /\ Len(calls) = 1 /\ calls[1].op = "create")
    /\ (Replied /\ req.route = "FileManager.upload_file_content" /\ exc = NoExc) =>
            (Len(calls) = 1 /\ calls[1].op = "create")

\* GET /folders/root whose accessor was built, so that root_folder() ran
RootFolderCalled ==
    /\ Replied /\ req.route = "GET /folders/root"
    /\ service(sm) = NoExc

\* C9: root_folder() returns the first folder of the page listed whose parents
\* are empty, and what it returns has empty parents; if the page holds no such
\* folder, or the listing call fails, it fails with Not Found (404) and with
\* no other error.
C9_RootFolderOrNotFound ==
    RootFolderCalled =>
        LET listed == Len(calls) = 1 /\ calls[1].op = "list" /\ calls[1].out = "ok"
            page == calls[1].res
            roots == {j \in DOMAIN page : page[j].parents = <<>>}
        IN  /\ Len(calls) = 1
            /\ IF listed /\ roots # {}
               THEN /\ exc = NoExc
                    /\ resp.code = 200
                    /\ Len(ret) = 1
                    /\ ret[1].parents = <<>>
                    /\ \E j \in roots : /\ ret[1].id = page[j].id
                                       /\ \A h \in roots : j <= h
               ELSE /\ exc.cls = "NotFoundException"
                    /\ resp.code = 404
                    /\ resp.envelope
                    /\ resp.status = 404

\* C9 witness: the listing call itself failed
C9_Witness ==
    /\ RootFolderCalled
    /\ calls[1].out = "error"
    /\ resp.code = 404

\* C10: with a token present and the secret absent from the environment, the
\* request is answered with a 500 envelope (status 500), not the 401 one, and
\* neither decryption nor session creation nor a provider call is attempted.
C10_MissingSecretIs500 ==
    (Routed /\ req.token.present /\ fernet_api_key = "") =>
        /\ Replied
        /\ resp.code = 500
        /\ resp.envelope
        /\ resp.status = 500
        /\ resp # NotAuthenticatedEnvelope
        /\ decrypts = 0
        /\ sessions = 0
        /\ calls = <<>>

\* C10 witness: a well-sealed token met by an absent secret
C10_Witness ==
    /\ Replied /\ Routed
    /\ req.token = Sealed("dict_good", "k1")
    /\ fernet_api_key = ""
    /\ resp.code = 500

\* a request whose token was decrypted, so that a handler ran on the
\* ServiceManager verify_credentials returned
Handled == Replied /\ Routed /\ sm # NoSM

\* C11: when building the session fails for a request whose token decrypts
\* (the bundle is unusable), every route answers the 401 Not Authenticated
\* envelope, not a 500, and no provider call is issued.
C11_SessionFailureIs401 ==
    (Handled /\ service(sm) # NoExc) =>
        /\ resp.code = 401
        /\ resp.envelope
        /\ resp.status = 401
        /\ resp.message = NotAuthMsg
        /\ sessions = 1
        /\ calls = <<>>

\* C11 witness: the folder-files route, whose handler fails later for another
\* reason, stopped by the session failure first
C11_Witness ==
    /\ Handled
    /\ req.route = "GET /folders/{id}/files"
    /\ sm.info = "dict_bad"
    /\ resp.code = 401

\* C12: in every route handler an exception of the accessor that is no
\* HTTPException becomes one 500 response whose envelope carries the message,
\* status 500 and the description of the original error; an exception that is
\* an HTTPException (401 / 403 / 404 / 500) reaches the caller with its own
\* status and envelope.
C12_HandlerErrorMapping ==
    (Handled /\ exc # NoExc) =>
        /\ resp.envelope
        /\ IF exc.http
           THEN /\ resp.code = exc.status
                /\ resp.status = exc.status
                /\ resp.message = exc.message
                /\ resp.error = exc.error
           ELSE /\ resp.code = 500
                /\ resp.status = 500
                /\ resp.message = "An internal server error occurred."
                /\ resp.error = exc.error

\* C12 witness: a provider error wrapped as 500 with its description
C12_Witness ==
    /\ Handled
    /\ exc.cls = "HttpError"
    /\ resp.code = 500
    /\ resp.error = "HttpError 503: Backend Error"

\* a create request answered with the created item
CreateRoutes == {"POST /files/", "POST /folders/"}
Created == Handled /\ req.route \in CreateRoutes /\ exc = NoExc

\* C13: after a successful create(name, parent_id), a get of the returned
\* item's id through the same kind of accessor, with nothing modified in
\* between, returns an item equal to the one create returned; when a parent
\* was given, that item's parents is exactly the one parent.
C13_ReadAfterCreate ==
    Created =>
        LET is_folder == req.route = "POST /folders/"
            g == ArchiveManager_get(drive, nextId, is_folder, ret[1].id, FALSE)
        IN  /\ Len(ret) = 1
            /\ g.exc = NoExc
            /\ g.result = ret
            /\ ret[1].name = req.name
            /\ req.parent_id # NoId => g.result[1].parents = <<req.parent_id>>

\* C13 witness: a file created inside a folder
C13_Witness ==
    /\ Created
    /\ req.route = "POST /files/"
    /\ req.parent_id # NoId
    /\ resp.code = 200

\* the step in which update issues its write (step b) and the handler replies
UpdateWriteStep == pc = "update_b" /\ pc' = "replied"

\* the parents the item has at the write that the fetch (step a) did not see
AddedInBetween ==
    LET Unseen(p) == p \notin Range(pend.old_parents)
    IN  SelectSeq(Item(drive, pend.id).parents, Unseen)

C15_UpdateChangesOnlyWhatIsGiven ==
    [][UpdateWriteStep =>
         LET c == calls'[Len(calls')]
             before == Item(drive, pend.id)
             after == Item(drive', pend.id)
         IN  /\ Len(calls') = 2
             /\ c.op = "update"
             /\ c.id = pend.id
             /\ pend.new_parent_id = NoId => (c.add = NoId /\ c.remove = <<>>)
             /\ pend.name = NoName => c.name = NoName
             /\ c.out = "ok" =>
                  /\ pend.new_parent_id = NoId => after.parents = before.parents
                  /\ pend.name = NoName => after.name = before.name
                  /\ (pend.new_parent_id = NoId /\ pend.name = NoName) =>
                       drive' = drive]_vars

\* C15 witness: an update with neither name nor parent, issued and answered,
\* on an item that has a name and parents to lose
C15_Witness ==
    /\ Handled
    /\ req.route \in PatchRoutes
    /\ req.name = NoName
    /\ req.parent_id = NoId
    /\ Len(calls) = 2
    /\ calls[2].op = "update"
    /\ calls[2].out = "ok"
    /\ calls[2].name = NoName
    /\ calls[2].res[1].parents # <<>>
    /\ resp.code = 200

\* the provider calls of one request: none is issued twice, and a failed one
\* is the last
IssuedOnce(cs) == \A i, j \in DOMAIN cs : cs[i].op = cs[j].op => i = j
FailedIsLast(cs) == \A i \in DOMAIN cs : cs[i].out # "ok" => i = Len(cs)
LastFailed(cs) == cs # <<>> /\ cs[Len(cs)].out # "ok"

\* C16: no layer retries and a failure ends the request: within one request
\* each provider call of an operation is issued at most once, and after a
\* failed provider call the request issues no other; when update's fetch of
\* the parents (step a) fails, the write (step b) is not issued and the
\* request leaves the provider's state as it was.
C16_NoRetryFailureIsTerminal ==
    [][/\ IssuedOnce(calls')
       /\ FailedIsLast(calls')
       /\ LastFailed(calls) => (calls' = calls \/ pc' = "idle")
       /\ (calls' # calls /\ LastFailed(calls')) =>
            (drive' = drive /\ nextId' = nextId /\ pc' = "replied" /\ exc' # NoExc)
       /\ (pc = "authed" /\ req'.route \in PatchRoutes /\ LastFailed(calls')) =>
            /\ Len(calls') = 1
            /\ calls'[1].op = "get"
            /\ pend' = NoPend
            /\ resp'.code = 500]_vars

\* C16 witness: an update whose fetch of the parents failed, answered after
\* that single call
C16_Witness ==
    /\ Handled
    /\ req.route \in PatchRoutes
    /\ Len(calls) = 1
    /\ calls[1].op = "get"
    /\ calls[1].out = "error"
    /\ exc # NoExc
    /\ resp.code = 500

====
